---- MODULE Spec2Model ----
(***************************************************************************)
(* Model of the study finalization orchestrator (Agent 8),                 *)
(* StudyOrchestratorAgent.orchestrate_study in                             *)
(* rad-assistant/src/radiology_assistant/agents/study_orchestrator.py.     *)
(*                                                                         *)
(* One run of orchestrate_study is a sequence of steps, one per block of   *)
(* the method: the five stages, the short circuit after a failed draft,    *)
(* the computation of the pipeline status, the learning-event emission     *)
(* and the return.  The stage executors are collaborators: each call       *)
(* either returns a result or raises, chosen nondeterministically.         *)
(***************************************************************************)
EXTENDS Integers, Sequences, FiniteSets, TLC

\* ------------------------------------------------------------------ bounds
\* Longest issue list of a QA result.
MaxIssues == 2

\* ------------------------------------------------------------ Python values
\* None where a text is expected (Optional[str]).
None == "<None>"
\* None where an object is expected (Optional[BaseModel]).
NoneObj == [is_none |-> TRUE]

\* Truth value of an Optional[str] in a condition: None and "" are falsy.
TruthyText(t) == t # None /\ t # ""

\* Sequences over S of length at most n.
SeqsUpTo(S, n) == UNION {[1..k -> S] : k \in 0..n}

\* ------------------------------------------------------------ enumerations
StudyPipelineStage ==
    <<"CV_ANALYSIS", "REPORT_DRAFT", "QA_REVIEW", "FOLLOWUP_EXTRACTION", "PATIENT_SUMMARY">>

StageStatus == {"NOT_RUN", "SUCCESS", "SKIPPED", "FAILED"}

PipelineStatus == {"SUCCESS", "PARTIAL_SUCCESS", "FAILED"}

QASeverity == {"critical", "major", "minor", "info"}

DiscrepancySeverity == {"CRITICAL", "MAJOR", "MINOR", "INFO"}

\* ------------------------------------------------------------------ inputs
\* An image reference is a dict; only the key file_path is looked at, and
\* only a file that exists can be opened.
ReadableFiles == {"study.png"}

ReadableRef == [file_path |-> "study.png"]

UnreadableRef == [file_path |-> "missing.png"]

NoPathRef == [uri |-> "pacs://1"]

\* image_references: Optional[List[Dict]]; given = FALSE is None.  The lists
\* are the empty one, one per kind of first reference, and one whose second
\* reference is readable while its first has no file_path.
ImageReferenceInputs ==
    {[given |-> FALSE, refs |-> <<>>]} \cup
    {[given |-> TRUE, refs |-> r] :
        r \in {<<>>, <<ReadableRef>>, <<UnreadableRef>>, <<NoPathRef, ReadableRef>>}}

PipelineOptions ==
    [run_cv_analysis : BOOLEAN, run_qa_review : BOOLEAN,
     run_followup_extraction : BOOLEAN, run_patient_summary : BOOLEAN]

StudyOrchestrationRequest ==
    [pipeline_options : PipelineOptions,
     image_references : ImageReferenceInputs,
     modality : {"CR"},
     radiologist_id : {None, "", "rad-1"},
     dry_run : BOOLEAN]

NoRequest == [is_none |-> TRUE]

\* The learning_repo of the constructor: None, a repository with save
\* (repositories.py) or one that only satisfies the get_events protocol.
LearningRepos == {"None", "WithSave", "GetEventsOnly"}

\* ------------------------------------------------------- executor outcomes
Raised(msg) == [raised |-> TRUE, error |-> msg]

Returned(res) == [raised |-> FALSE, result |-> res]

CVOutcomes == {Raised("CV Error"), Returned([summary |-> "opacity"])}

DraftOutcomes ==
    {Raised("LLM Error")} \cup {Returned([report_text |-> t]) : t \in {"", "Draft Report"}}

QAIssues == [severity : QASeverity]

QAOutcomes ==
    {Raised("QA Error")} \cup
    {Returned([normalized_report_text |-> n, issues |-> i]) :
        n \in {None, "", "Clean Report"}, i \in SeqsUpTo(QAIssues, MaxIssues)}

FollowUpOutcomes == {Raised("Followup Error"), Returned([has_any_followup |-> TRUE])}

PatientSummaryOutcomes == {Raised("Explainer Error"), Returned([patient_summary_text |-> "summary"])}

SaveOutcomes == {Raised("DB Error"), Returned(NoneObj)}

\* ------------------------------------------------------------------- state
VARIABLES
    cv_agent,             \* self.cv_agent is configured
    learning_repo,        \* self.learning_repo
    pc,                   \* position of the run inside orchestrate_study
    request,              \* the request of the run
    stages,               \* the ledger: List[StageResult]
    bundle,               \* the StudyBundle
    report_failed,        \* local report_failed
    current_report_text,  \* local current_report_text
    pipeline_status,      \* local pipeline_status
    callLog,              \* calls made on the collaborators, in order
    response,             \* the returned StudyOrchestrationResponse
    runs                  \* concurrent invocations: the frame of each (ConcurrentSpec)

vars == <<cv_agent, learning_repo, pc, request, stages, bundle, report_failed,
          current_report_text, pipeline_status, callLog, response, runs>>

StageResult(stage, status, error) == [stage |-> stage, status |-> status, error |-> error]

\* Mutant of record_stage: a skipped stage leaves no entry in the ledger.
record_stage_DropSkipped(ledger, stage, status, error) ==
    IF status = "SKIPPED" THEN ledger ELSE Append(ledger, StageResult(stage, status, error))

\* Mutant of record_stage: the error text is not stored.
record_stage_NoError(ledger, stage, status, error) == Append(ledger, StageResult(stage, status, None))

\* record_stage: append one StageResult to the ledger.
record_stage(ledger, stage, status, error) == Append(ledger, StageResult(stage, status, error))

StudyBundle ==
    [cv_analysis |-> NoneObj, report_draft |-> NoneObj, qa_result |-> NoneObj,
     final_report_text |-> None, followup_data |-> NoneObj, patient_summary |-> NoneObj]

Call(agent, arg, outcome) == [agent |-> agent, arg |-> arg, raised |-> outcome.raised]

Init ==
    /\ cv_agent \in BOOLEAN
    /\ learning_repo \in LearningRepos
    /\ pc = "idle"
    /\ request = NoRequest
    /\ stages = <<>>
    /\ bundle = StudyBundle
    /\ report_failed = FALSE
    /\ current_report_text = None
    /\ pipeline_status = None
    /\ callLog = <<>>
    /\ response = NoneObj
    /\ runs = <<>>

\* Mutant of Begin: the run starts at the report draft; CV is left out.
Begin_SkipCV ==
    /\ pc = "idle"
    /\ \E req \in StudyOrchestrationRequest : request' = req
    /\ stages' = <<>>
    /\ bundle' = StudyBundle
    /\ pc' = "draft"
    /\ UNCHANGED <<runs, cv_agent, learning_repo, report_failed, current_report_text,
                   pipeline_status, callLog, response>>

\* orchestrate_study is entered with a request; the ledger and the bundle
\* are initialised.
Begin ==
    /\ pc = "idle"
    /\ \E req \in StudyOrchestrationRequest : request' = req
    /\ stages' = <<>>
    /\ bundle' = StudyBundle
    /\ pc' = "cv"
    /\ UNCHANGED <<runs, cv_agent, learning_repo, report_failed, current_report_text,
                   pipeline_status, callLog, response>>

\* ------------------------------------------------------- Stage 1: CV analysis
\* Line 83: the CV stage is attempted.
CVEligible(req, agent) ==
    /\ req.pipeline_options.run_cv_analysis
    /\ agent
    /\ req.image_references.given /\ Len(req.image_references.refs) > 0

\* Mutant of CVNotAttemptedStatus: the run_cv_analysis toggle is not looked at.
CVNotAttemptedStatus_IgnoresToggle(req, agent) ==
    LET status == IF ~(req.image_references.given /\ Len(req.image_references.refs) > 0)
                  THEN "SKIPPED" ELSE "NOT_RUN"
    IN  IF ~agent THEN "SKIPPED" ELSE status

\* Mutant of CVNotAttemptedStatus: missing image references are not looked at.
CVNotAttemptedStatus_IgnoresImages(req, agent) ==
    LET status == IF ~req.pipeline_options.run_cv_analysis THEN "SKIPPED" ELSE "NOT_RUN"
    IN  IF ~agent THEN "SKIPPED" ELSE status

\* Mutant of CVNotAttemptedStatus: line 120 is missing, a coordinator without
\* CV executor keeps the status of line 119.
CVNotAttemptedStatus_NoAgentOverride(req, agent) ==
    IF \/ ~req.pipeline_options.run_cv_analysis
       \/ ~(req.image_references.given /\ Len(req.image_references.refs) > 0)
    THEN "SKIPPED" ELSE "NOT_RUN"

\* Lines 119-120: the status recorded when the CV stage is not attempted.
CVNotAttemptedStatus(req, agent) ==
    LET status == IF \/ ~req.pipeline_options.run_cv_analysis
                     \/ ~(req.image_references.given /\ Len(req.image_references.refs) > 0)
                  THEN "SKIPPED" ELSE "NOT_RUN"
    IN  IF ~agent THEN "SKIPPED" ELSE status

StageCV ==
    /\ pc = "cv"
    /\ IF CVEligible(request, cv_agent)
       THEN LET ref == request.image_references.refs[1] IN
            IF "file_path" \in DOMAIN ref
            THEN IF ref.file_path \notin ReadableFiles
                 THEN \* open() raises inside the try block
                      /\ stages' = record_stage(stages, "CV_ANALYSIS", "FAILED", "No such file or directory")
                      /\ UNCHANGED <<bundle, callLog>>
                 ELSE \E out \in CVOutcomes :
                      /\ callLog' = Append(callLog, Call("cv_agent", [modality |-> request.modality], out))
                      /\ IF out.raised
                         THEN /\ stages' = record_stage(stages, "CV_ANALYSIS", "FAILED", out.error)
                              /\ UNCHANGED bundle
                         ELSE /\ bundle' = [bundle EXCEPT !.cv_analysis = out.result]
                              /\ stages' = record_stage(stages, "CV_ANALYSIS", "SUCCESS", None)
            ELSE /\ stages' = record_stage(stages, "CV_ANALYSIS", "SKIPPED", "No file_path in image_references")
                 /\ UNCHANGED <<bundle, callLog>>
       ELSE /\ stages' = record_stage(stages, "CV_ANALYSIS", CVNotAttemptedStatus(request, cv_agent), None)
            /\ UNCHANGED <<bundle, callLog>>
    /\ pc' = "draft"
    /\ UNCHANGED <<runs, cv_agent, learning_repo, request, report_failed, current_report_text,
                   pipeline_status, response>>

\* ------------------------------------------- Stage 2: report draft (critical)
\* Line 151: the text handed to the next stages.
ReportTextOf(b) == IF b.report_draft # NoneObj THEN b.report_draft.report_text ELSE None

\* Mutant of StageDraft: a failed CV stage is fatal, the drafter is not called.
StageDraft_CVFatal ==
    /\ pc = "draft"
    /\ \E out \in IF stages[1].status = "FAILED" THEN {Raised("CV failed")} ELSE DraftOutcomes :
        /\ callLog' = IF stages[1].status = "FAILED" THEN callLog ELSE Append(callLog, Call("report_drafter", [cv_summary |-> bundle.cv_analysis], out))
        /\ IF out.raised
           THEN /\ stages' = record_stage(stages, "REPORT_DRAFT", "FAILED", out.error)
                /\ report_failed' = TRUE
                /\ UNCHANGED bundle
           ELSE /\ bundle' = [bundle EXCEPT !.report_draft = out.result]
                /\ stages' = record_stage(stages, "REPORT_DRAFT", "SUCCESS", None)
                /\ report_failed' = FALSE
    /\ current_report_text' = ReportTextOf(bundle')
    /\ pc' = "qa"
    /\ UNCHANGED <<runs, cv_agent, learning_repo, request, pipeline_status, response>>

StageDraft ==
    /\ pc = "draft"
    /\ \E out \in DraftOutcomes :
        /\ callLog' = Append(callLog, Call("report_drafter", [cv_summary |-> bundle.cv_analysis], out))
        /\ IF out.raised
           THEN /\ stages' = record_stage(stages, "REPORT_DRAFT", "FAILED", out.error)
                /\ report_failed' = TRUE
                /\ UNCHANGED bundle
           ELSE /\ bundle' = [bundle EXCEPT !.report_draft = out.result]
                /\ stages' = record_stage(stages, "REPORT_DRAFT", "SUCCESS", None)
                /\ report_failed' = FALSE
    /\ current_report_text' = ReportTextOf(bundle')
    /\ pc' = "qa"
    /\ UNCHANGED <<runs, cv_agent, learning_repo, request, pipeline_status, response>>

\* Mutant of ShortCircuitCondition: only an empty draft text short-circuits.
ShortCircuitCondition_EmptyTextOnly(failed, text) == text = ""

\* Line 154: the downstream stages are skipped.
ShortCircuitCondition(failed, text) == failed \/ ~TruthyText(text)

\* Mutant of ShortCircuit: a failed draft is counted like any other failure.
ShortCircuit_PartialStatus ==
    /\ pc = "qa"
    /\ ShortCircuitCondition(report_failed, current_report_text)
    /\ stages' = record_stage(
                    record_stage(
                        record_stage(stages, "QA_REVIEW", "SKIPPED", "Upstream dependency failed"),
                        "FOLLOWUP_EXTRACTION", "SKIPPED", "Upstream dependency failed"),
                    "PATIENT_SUMMARY", "SKIPPED", "Upstream dependency failed")
    /\ pipeline_status' = "PARTIAL_SUCCESS"
    /\ pc' = "return"
    /\ UNCHANGED <<runs, cv_agent, learning_repo, request, bundle, report_failed,
                   current_report_text, callLog, response>>

\* Mutant of ShortCircuit: the unusable draft text becomes the final text.
ShortCircuit_KeepsDraftText ==
    /\ pc = "qa"
    /\ ShortCircuitCondition(report_failed, current_report_text)
    /\ stages' = record_stage(
                    record_stage(
                        record_stage(stages, "QA_REVIEW", "SKIPPED", "Upstream dependency failed"),
                        "FOLLOWUP_EXTRACTION", "SKIPPED", "Upstream dependency failed"),
                    "PATIENT_SUMMARY", "SKIPPED", "Upstream dependency failed")
    /\ bundle' = [bundle EXCEPT !.final_report_text =
                                    IF current_report_text = None THEN "" ELSE current_report_text]
    /\ pipeline_status' = "FAILED"
    /\ pc' = "return"
    /\ UNCHANGED <<runs, cv_agent, learning_repo, request, report_failed,
                   current_report_text, callLog, response>>

\* Mutant of ShortCircuit: the recorded draft entry is rewritten as FAILED.
ShortCircuit_RewriteDraft ==
    /\ pc = "qa"
    /\ ShortCircuitCondition(report_failed, current_report_text)
    /\ stages' = record_stage(
                    record_stage(
                        record_stage([stages EXCEPT ![2].status = "FAILED"], "QA_REVIEW", "SKIPPED", "Upstream dependency failed"),
                        "FOLLOWUP_EXTRACTION", "SKIPPED", "Upstream dependency failed"),
                    "PATIENT_SUMMARY", "SKIPPED", "Upstream dependency failed")
    /\ pipeline_status' = "FAILED"
    /\ pc' = "return"
    /\ UNCHANGED <<runs, cv_agent, learning_repo, request, bundle, report_failed,
                   current_report_text, callLog, response>>

\* Lines 154-160.
ShortCircuit ==
    /\ pc = "qa"
    /\ ShortCircuitCondition(report_failed, current_report_text)
    /\ stages' = record_stage(
                    record_stage(
                        record_stage(stages, "QA_REVIEW", "SKIPPED", "Upstream dependency failed"),
                        "FOLLOWUP_EXTRACTION", "SKIPPED", "Upstream dependency failed"),
                    "PATIENT_SUMMARY", "SKIPPED", "Upstream dependency failed")
    /\ pipeline_status' = "FAILED"
    /\ pc' = "return"
    /\ UNCHANGED <<runs, cv_agent, learning_repo, request, bundle, report_failed,
                   current_report_text, callLog, response>>

\* ------------------------------------------------------- Stage 3: QA review
\* Mutant of FinalTextAfterQA: the normalized text is tested against None only.
FinalTextAfterQA_NotNone(qa_result, current) ==
    IF qa_result.normalized_report_text # None
    THEN qa_result.normalized_report_text
    ELSE current

\* Lines 174-177: the final report text after a QA result.
FinalTextAfterQA(qa_result, current) ==
    IF TruthyText(qa_result.normalized_report_text)
    THEN qa_result.normalized_report_text
    ELSE current

\* Mutant of StageQA: the except branch does not set the fallback text.
StageQA_NoFallback ==
    /\ pc = "qa"
    /\ ~ShortCircuitCondition(report_failed, current_report_text)
    /\ IF request.pipeline_options.run_qa_review
       THEN \E out \in QAOutcomes :
            /\ callLog' = Append(callLog, Call("qa_agent", [report_text |-> current_report_text], out))
            /\ IF out.raised
               THEN /\ stages' = record_stage(stages, "QA_REVIEW", "FAILED", out.error)
                    /\ UNCHANGED bundle
               ELSE /\ bundle' = [bundle EXCEPT !.qa_result = out.result,
                                                !.final_report_text = FinalTextAfterQA(out.result, current_report_text)]
                    /\ stages' = record_stage(stages, "QA_REVIEW", "SUCCESS", None)
       ELSE /\ bundle' = [bundle EXCEPT !.final_report_text = current_report_text]
            /\ stages' = record_stage(stages, "QA_REVIEW", "SKIPPED", None)
            /\ UNCHANGED callLog
    /\ pc' = "followup"
    /\ UNCHANGED <<runs, cv_agent, learning_repo, request, report_failed, current_report_text,
                   pipeline_status, response>>

\* Lines 163-187.
StageQA ==
    /\ pc = "qa"
    /\ ~ShortCircuitCondition(report_failed, current_report_text)
    /\ IF request.pipeline_options.run_qa_review
       THEN \E out \in QAOutcomes :
            /\ callLog' = Append(callLog, Call("qa_agent", [report_text |-> current_report_text], out))
            /\ IF out.raised
               THEN /\ stages' = record_stage(stages, "QA_REVIEW", "FAILED", out.error)
                    /\ bundle' = [bundle EXCEPT !.final_report_text = current_report_text]
               ELSE /\ bundle' = [bundle EXCEPT !.qa_result = out.result,
                                                !.final_report_text = FinalTextAfterQA(out.result, current_report_text)]
                    /\ stages' = record_stage(stages, "QA_REVIEW", "SUCCESS", None)
       ELSE /\ bundle' = [bundle EXCEPT !.final_report_text = current_report_text]
            /\ stages' = record_stage(stages, "QA_REVIEW", "SKIPPED", None)
            /\ UNCHANGED callLog
    /\ pc' = "followup"
    /\ UNCHANGED <<runs, cv_agent, learning_repo, request, report_failed, current_report_text,
                   pipeline_status, response>>

\* Mutant of StageFollowup: the executor is called outside a try block, so
\* its exception ends the run without a response.
StageFollowup_NoCatch ==
    /\ pc = "followup"
    /\ IF request.pipeline_options.run_followup_extraction
       THEN \E out \in FollowUpOutcomes :
            /\ callLog' = Append(callLog, Call("followup_agent", [report_text |-> bundle.final_report_text], out))
            /\ IF out.raised
               THEN /\ pc' = "raised"
                    /\ UNCHANGED <<bundle, stages>>
               ELSE /\ bundle' = [bundle EXCEPT !.followup_data = out.result]
                    /\ stages' = record_stage(stages, "FOLLOWUP_EXTRACTION", "SUCCESS", None)
                    /\ pc' = "summary"
       ELSE /\ stages' = record_stage(stages, "FOLLOWUP_EXTRACTION", "SKIPPED", None)
            /\ pc' = "summary"
            /\ UNCHANGED <<bundle, callLog>>
    /\ UNCHANGED <<runs, cv_agent, learning_repo, request, report_failed, current_report_text,
                   pipeline_status, response>>

\* Mutant of StageFollowup: the executor is given the raw draft text.
StageFollowup_RawText ==
    /\ pc = "followup"
    /\ IF request.pipeline_options.run_followup_extraction
       THEN \E out \in FollowUpOutcomes :
            /\ callLog' = Append(callLog, Call("followup_agent", [report_text |-> current_report_text], out))
            /\ IF out.raised
               THEN /\ stages' = record_stage(stages, "FOLLOWUP_EXTRACTION", "FAILED", out.error)
                    /\ UNCHANGED bundle
               ELSE /\ bundle' = [bundle EXCEPT !.followup_data = out.result]
                    /\ stages' = record_stage(stages, "FOLLOWUP_EXTRACTION", "SUCCESS", None)
       ELSE /\ stages' = record_stage(stages, "FOLLOWUP_EXTRACTION", "SKIPPED", None)
            /\ UNCHANGED <<bundle, callLog>>
    /\ pc' = "summary"
    /\ UNCHANGED <<runs, cv_agent, learning_repo, request, report_failed, current_report_text,
                   pipeline_status, response>>

\* ---------------------------------------------- Stage 4: follow-up extraction
\* Lines 190-203.
StageFollowup ==
    /\ pc = "followup"
    /\ IF request.pipeline_options.run_followup_extraction
       THEN \E out \in FollowUpOutcomes :
            /\ callLog' = Append(callLog, Call("followup_agent", [report_text |-> bundle.final_report_text], out))
            /\ IF out.raised
               THEN /\ stages' = record_stage(stages, "FOLLOWUP_EXTRACTION", "FAILED", out.error)
                    /\ UNCHANGED bundle
               ELSE /\ bundle' = [bundle EXCEPT !.followup_data = out.result]
                    /\ stages' = record_stage(stages, "FOLLOWUP_EXTRACTION", "SUCCESS", None)
       ELSE /\ stages' = record_stage(stages, "FOLLOWUP_EXTRACTION", "SKIPPED", None)
            /\ UNCHANGED <<bundle, callLog>>
    /\ pc' = "summary"
    /\ UNCHANGED <<runs, cv_agent, learning_repo, request, report_failed, current_report_text,
                   pipeline_status, response>>

\* Mutant of StageSummary: the result of the executor is not stored.
StageSummary_NoStore ==
    /\ pc = "summary"
    /\ IF request.pipeline_options.run_patient_summary
       THEN \E out \in PatientSummaryOutcomes :
            /\ callLog' = Append(callLog,
                                 Call("patient_explainer",
                                      [report_text |-> bundle.final_report_text,
                                       followup_data |-> bundle.followup_data], out))
            /\ IF out.raised
               THEN /\ stages' = record_stage(stages, "PATIENT_SUMMARY", "FAILED", out.error)
                    /\ UNCHANGED bundle
               ELSE /\ UNCHANGED bundle
                    /\ stages' = record_stage(stages, "PATIENT_SUMMARY", "SUCCESS", None)
       ELSE /\ stages' = record_stage(stages, "PATIENT_SUMMARY", "SKIPPED", None)
            /\ UNCHANGED <<bundle, callLog>>
    /\ pc' = "status"
    /\ UNCHANGED <<runs, cv_agent, learning_repo, request, report_failed, current_report_text,
                   pipeline_status, response>>

\* Mutant of StageSummary: a call that raised is made a second time.
StageSummary_RetryOnce ==
    /\ pc = "summary"
    /\ IF request.pipeline_options.run_patient_summary
       THEN \E out \in PatientSummaryOutcomes :
            /\ LET call == Call("patient_explainer",
                                [report_text |-> bundle.final_report_text,
                                 followup_data |-> bundle.followup_data], out)
               IN  callLog' = IF out.raised THEN Append(Append(callLog, call), call)
                              ELSE Append(callLog, call)
            /\ IF out.raised
               THEN /\ stages' = record_stage(stages, "PATIENT_SUMMARY", "FAILED", out.error)
                    /\ UNCHANGED bundle
               ELSE /\ bundle' = [bundle EXCEPT !.patient_summary = out.result]
                    /\ stages' = record_stage(stages, "PATIENT_SUMMARY", "SUCCESS", None)
       ELSE /\ stages' = record_stage(stages, "PATIENT_SUMMARY", "SKIPPED", None)
            /\ UNCHANGED <<bundle, callLog>>
    /\ pc' = "status"
    /\ UNCHANGED <<runs, cv_agent, learning_repo, request, report_failed, current_report_text,
                   pipeline_status, response>>

\* --------------------------------------------------- Stage 5: patient summary
\* Lines 206-221.
StageSummary ==
    /\ pc = "summary"
    /\ IF request.pipeline_options.run_patient_summary
       THEN \E out \in PatientSummaryOutcomes :
            /\ callLog' = Append(callLog,
                                 Call("patient_explainer",
                                      [report_text |-> bundle.final_report_text,
                                       followup_data |-> bundle.followup_data], out))
            /\ IF out.raised
               THEN /\ stages' = record_stage(stages, "PATIENT_SUMMARY", "FAILED", out.error)
                    /\ UNCHANGED bundle
               ELSE /\ bundle' = [bundle EXCEPT !.patient_summary = out.result]
                    /\ stages' = record_stage(stages, "PATIENT_SUMMARY", "SUCCESS", None)
       ELSE /\ stages' = record_stage(stages, "PATIENT_SUMMARY", "SKIPPED", None)
            /\ UNCHANGED <<bundle, callLog>>
    /\ pc' = "status"
    /\ UNCHANGED <<runs, cv_agent, learning_repo, request, report_failed, current_report_text,
                   pipeline_status, response>>

\* ------------------------------------------------------------ pipeline status
\* Lines 226-230: the status of a run whose draft succeeded.
ComputePipelineStatus(ledger) ==
    IF \E k \in 1..Len(ledger) : ledger[k].status = "FAILED"
    THEN "PARTIAL_SUCCESS"
    ELSE "SUCCESS"

DeterminePipelineStatus ==
    /\ pc = "status"
    /\ pipeline_status' = ComputePipelineStatus(stages)
    /\ pc' = "learning"
    /\ UNCHANGED <<runs, cv_agent, learning_repo, request, stages, bundle, report_failed,
                   current_report_text, callLog, response>>

\* ------------------------------------------------------------ learning event
\* Lines 233-237: the guard of the learning-event block.
LearningGuard(req, repo, b) ==
    /\ ~req.dry_run
    /\ repo # "None"
    /\ TruthyText(req.radiologist_id)
    /\ b.qa_result # NoneObj
    /\ Len(b.qa_result.issues) > 0

\* Mutant of has_significant: only CRITICAL issues count.
has_significant_CriticalOnly(issues) ==
    \E k \in 1..Len(issues) : issues[k].severity \in {"critical"}

\* Line 240.
has_significant(issues) ==
    \E k \in 1..Len(issues) : issues[k].severity \in {"critical", "major"}

\* Lines 245-250.
sev_map ==
    [s \in QASeverity |->
        CASE s = "critical" -> "CRITICAL"
          [] s = "major" -> "MAJOR"
          [] s = "minor" -> "MINOR"
          [] s = "info" -> "INFO"]

\* Lines 252-256: the loop over the issues from position k on.
RECURSIVE MaxSevFrom(_, _, _)
MaxSevFrom(issues, k, max_sev) ==
    IF k > Len(issues) THEN max_sev
    ELSE LET s == sev_map[issues[k].severity] IN
         IF s = "CRITICAL" THEN "CRITICAL"
         ELSE IF s = "MAJOR" /\ max_sev # "CRITICAL"
              THEN MaxSevFrom(issues, k + 1, "MAJOR")
              ELSE MaxSevFrom(issues, k + 1, max_sev)

\* Mutant of max_sev: the severity of the first significant issue is taken.
max_sev_FirstSignificant(issues) ==
    LET first == CHOOSE k \in 1..Len(issues) :
                    /\ issues[k].severity \in {"critical", "major"}
                    /\ \A h \in 1..(k - 1) : issues[h].severity \notin {"critical", "major"}
    IN  sev_map[issues[first].severity]

\* Lines 252-256: max_sev after the loop.
max_sev(issues) == MaxSevFrom(issues, 1, "INFO")

\* Mutant of LearningEvent: the after-text is the draft text.
LearningEvent_AfterIsDraft(req, b) ==
    [radiologist_id |-> req.radiologist_id,
     event_type |-> "QA_ISSUE",
     severity |-> max_sev(b.qa_result.issues),
     source |-> "orchestrator_pipeline",
     report_text_before |-> b.report_draft.report_text,
     report_text_after |-> b.report_draft.report_text,
     qa_issues |-> b.qa_result.issues]

\* Lines 258-269.
LearningEvent(req, b) ==
    [radiologist_id |-> req.radiologist_id,
     event_type |-> "QA_ISSUE",
     severity |-> max_sev(b.qa_result.issues),
     source |-> "orchestrator_pipeline",
     report_text_before |-> b.report_draft.report_text,
     report_text_after |-> b.final_report_text,
     qa_issues |-> b.qa_result.issues]

\* Line 275: hasattr(self.learning_repo, "save").
HasSave(repo) == repo = "WithSave"

\* Mutant of LogLearningEvent: the event is emitted for SUCCESS runs only.
LogLearningEvent_OnlyOnSuccess ==
    /\ pc = "learning"
    /\ IF /\ pipeline_status = "SUCCESS"
          /\ LearningGuard(request, learning_repo, bundle)
          /\ has_significant(bundle.qa_result.issues)
          /\ HasSave(learning_repo)
       THEN \E out \in SaveOutcomes :
            callLog' = Append(callLog, Call("learning_repo", LearningEvent(request, bundle), out))
       ELSE UNCHANGED callLog
    /\ pc' = "return"
    /\ UNCHANGED <<runs, cv_agent, learning_repo, request, stages, bundle, report_failed,
                   current_report_text, pipeline_status, response>>

\* Mutant of LogLearningEvent: an exception of save is not caught and ends
\* the run without a response.
LogLearningEvent_Propagates ==
    /\ pc = "learning"
    /\ IF /\ LearningGuard(request, learning_repo, bundle)
          /\ has_significant(bundle.qa_result.issues)
          /\ HasSave(learning_repo)
       THEN \E out \in SaveOutcomes :
            /\ callLog' = Append(callLog, Call("learning_repo", LearningEvent(request, bundle), out))
            /\ pc' = IF out.raised THEN "raised" ELSE "return"
       ELSE /\ UNCHANGED callLog
            /\ pc' = "return"
    /\ UNCHANGED <<runs, cv_agent, learning_repo, request, stages, bundle, report_failed,
                   current_report_text, pipeline_status, response>>

\* Lines 233-278.  An exception of save is caught and logged.
LogLearningEvent ==
    /\ pc = "learning"
    /\ IF /\ LearningGuard(request, learning_repo, bundle)
          /\ has_significant(bundle.qa_result.issues)
          /\ HasSave(learning_repo)
       THEN \E out \in SaveOutcomes :
            callLog' = Append(callLog, Call("learning_repo", LearningEvent(request, bundle), out))
       ELSE UNCHANGED callLog
    /\ pc' = "return"
    /\ UNCHANGED <<runs, cv_agent, learning_repo, request, stages, bundle, report_failed,
                   current_report_text, pipeline_status, response>>

\* --------------------------------------------------------------------- return
\* Lines 280-286.
Return ==
    /\ pc = "return"
    /\ response' = [pipeline_status |-> pipeline_status, bundle |-> bundle, stages |-> stages]
    /\ pc' = "done"
    /\ UNCHANGED <<runs, cv_agent, learning_repo, request, stages, bundle, report_failed,
                   current_report_text, pipeline_status, callLog>>

Next ==
    \/ Begin
    \/ StageCV
    \/ StageDraft
    \/ ShortCircuit
    \/ StageQA
    \/ StageFollowup
    \/ StageSummary
    \/ DeterminePipelineStatus
    \/ LogLearningEvent
    \/ Return

Spec == Init /\ [][Next]_vars

TypeOK ==
    /\ pc \in {"idle", "cv", "draft", "qa", "followup", "summary", "status", "learning", "return", "done"}
    /\ Len(stages) <= 5
    /\ \A k \in 1..Len(stages) : stages[k].status \in StageStatus

\* ============================================== concurrent invocations
\* orchestrate_study called twice on one coordinator instance (the singleton
\* of get_orchestrator_agent).  The fields of the instance (cv_agent,
\* learning_repo, the executors) are shared and only read; stages, bundle,
\* report_failed, current_report_text and pipeline_status are locals of the
\* call (lines 62-66, 125, 151, 160), so each invocation has its own frame.
\* What the executors do when a run calls them is fixed per run in the
\* frame's outcomes, so that two runs can be given the same outcomes.
Runs == {1, 2}

\* Requests of the concurrent runs: all stages enabled, one readable image.
ConcurrentRequests ==
    {[pipeline_options |-> [run_cv_analysis |-> TRUE, run_qa_review |-> TRUE,
                            run_followup_extraction |-> TRUE, run_patient_summary |-> TRUE],
      image_references |-> [given |-> TRUE, refs |-> <<ReadableRef>>],
      modality |-> "CR",
      radiologist_id |-> "rad-1",
      dry_run |-> d] : d \in BOOLEAN}

\* QA either raises or returns a normalized text with one MAJOR issue.
ConcurrentQAOutcomes ==
    {Raised("QA Error"),
     Returned([normalized_report_text |-> "Clean Report", issues |-> <<[severity |-> "major"]>>])}

\* What each collaborator does when a run calls it.
ExecutorScenarios ==
    [cv_agent : CVOutcomes, report_drafter : DraftOutcomes, qa_agent : ConcurrentQAOutcomes,
     followup_agent : FollowUpOutcomes, patient_explainer : PatientSummaryOutcomes,
     learning_repo : {Returned(NoneObj)}]

\* The frame of an invocation that has not started.
IdleFrame ==
    [pc |-> "idle", request |-> NoRequest, outcomes |-> NoneObj, stages |-> <<>>,
     bundle |-> StudyBundle, report_failed |-> FALSE, current_report_text |-> None,
     pipeline_status |-> None, calls |-> <<>>, response |-> NoneObj]

\* Lines 54-70: entry of orchestrate_study.
BeginFrame(f, req, scenario) ==
    [f EXCEPT !.request = req, !.outcomes = scenario, !.stages = <<>>,
              !.bundle = StudyBundle, !.pc = "cv"]

\* Lines 83-121 on a frame.
CVFrame(f, agent) ==
    LET req == f.request
        out == f.outcomes.cv_agent
        g == [f EXCEPT !.pc = "draft"]
    IN  IF CVEligible(req, agent)
        THEN LET ref == req.image_references.refs[1] IN
             IF "file_path" \in DOMAIN ref
             THEN IF ref.file_path \notin ReadableFiles
                  THEN [g EXCEPT !.stages = record_stage(@, "CV_ANALYSIS", "FAILED", "No such file or directory")]
                  ELSE LET h == [g EXCEPT !.calls = Append(@, Call("cv_agent", [modality |-> req.modality], out))]
                       IN  IF out.raised
                           THEN [h EXCEPT !.stages = record_stage(@, "CV_ANALYSIS", "FAILED", out.error)]
                           ELSE [h EXCEPT !.bundle.cv_analysis = out.result,
                                          !.stages = record_stage(@, "CV_ANALYSIS", "SUCCESS", None)]
             ELSE [g EXCEPT !.stages = record_stage(@, "CV_ANALYSIS", "SKIPPED", "No file_path in image_references")]
        ELSE [g EXCEPT !.stages = record_stage(@, "CV_ANALYSIS", CVNotAttemptedStatus(req, agent), None)]

\* Lines 125-151 on a frame.
DraftFrame(f) ==
    LET out == f.outcomes.report_drafter
        h == [f EXCEPT !.calls = Append(@, Call("report_drafter", [cv_summary |-> f.bundle.cv_analysis], out)),
                       !.pc = "qa"]
        k == IF out.raised
             THEN [h EXCEPT !.stages = record_stage(@, "REPORT_DRAFT", "FAILED", out.error),
                            !.report_failed = TRUE]
             ELSE [h EXCEPT !.bundle.report_draft = out.result,
                            !.stages = record_stage(@, "REPORT_DRAFT", "SUCCESS", None),
                            !.report_failed = FALSE]
    IN  [k EXCEPT !.current_report_text = ReportTextOf(k.bundle)]

\* Lines 154-160 on a frame.
ShortCircuitFrame(f) ==
    [f EXCEPT !.stages = record_stage(
                            record_stage(
                                record_stage(@, "QA_REVIEW", "SKIPPED", "Upstream dependency failed"),
                                "FOLLOWUP_EXTRACTION", "SKIPPED", "Upstream dependency failed"),
                            "PATIENT_SUMMARY", "SKIPPED", "Upstream dependency failed"),
              !.pipeline_status = "FAILED",
              !.pc = "return"]

\* Lines 163-187 on a frame.
QAFrame(f) ==
    LET out == f.outcomes.qa_agent
        g == [f EXCEPT !.pc = "followup"]
    IN  IF f.request.pipeline_options.run_qa_review
        THEN LET h == [g EXCEPT !.calls = Append(@, Call("qa_agent", [report_text |-> f.current_report_text], out))]
             IN  IF out.raised
                 THEN [h EXCEPT !.stages = record_stage(@, "QA_REVIEW", "FAILED", out.error),
                                !.bundle.final_report_text = f.current_report_text]
                 ELSE [h EXCEPT !.bundle.qa_result = out.result,
                                !.bundle.final_report_text = FinalTextAfterQA(out.result, f.current_report_text),
                                !.stages = record_stage(@, "QA_REVIEW", "SUCCESS", None)]
        ELSE [g EXCEPT !.bundle.final_report_text = f.current_report_text,
                       !.stages = record_stage(@, "QA_REVIEW", "SKIPPED", None)]

\* Lines 190-203 on a frame.
FollowupFrame(f) ==
    LET out == f.outcomes.followup_agent
        g == [f EXCEPT !.pc = "summary"]
    IN  IF f.request.pipeline_options.run_followup_extraction
        THEN LET h == [g EXCEPT !.calls = Append(@, Call("followup_agent", [report_text |-> f.bundle.final_report_text], out))]
             IN  IF out.raised
                 THEN [h EXCEPT !.stages = record_stage(@, "FOLLOWUP_EXTRACTION", "FAILED", out.error)]
                 ELSE [h EXCEPT !.bundle.followup_data = out.result,
                                !.stages = record_stage(@, "FOLLOWUP_EXTRACTION", "SUCCESS", None)]
        ELSE [g EXCEPT !.stages = record_stage(@, "FOLLOWUP_EXTRACTION", "SKIPPED", None)]

\* Mutant of SummaryFrame: a dry run does not run the patient summary.
SummaryFrame_SkipOnDryRun(f) ==
    LET out == f.outcomes.patient_explainer
        g == [f EXCEPT !.pc = "status"]
    IN  IF f.request.pipeline_options.run_patient_summary /\ ~f.request.dry_run
        THEN LET h == [g EXCEPT !.calls = Append(@, Call("patient_explainer",
                                                         [report_text |-> f.bundle.final_report_text,
                                                          followup_data |-> f.bundle.followup_data], out))]
             IN  IF out.raised
                 THEN [h EXCEPT !.stages = record_stage(@, "PATIENT_SUMMARY", "FAILED", out.error)]
                 ELSE [h EXCEPT !.bundle.patient_summary = out.result,
                                !.stages = record_stage(@, "PATIENT_SUMMARY", "SUCCESS", None)]
        ELSE [g EXCEPT !.stages = record_stage(@, "PATIENT_SUMMARY", "SKIPPED", None)]

\* Lines 206-221 on a frame.
SummaryFrame(f) ==
    LET out == f.outcomes.patient_explainer
        g == [f EXCEPT !.pc = "status"]
    IN  IF f.request.pipeline_options.run_patient_summary
        THEN LET h == [g EXCEPT !.calls = Append(@, Call("patient_explainer",
                                                         [report_text |-> f.bundle.final_report_text,
                                                          followup_data |-> f.bundle.followup_data], out))]
             IN  IF out.raised
                 THEN [h EXCEPT !.stages = record_stage(@, "PATIENT_SUMMARY", "FAILED", out.error)]
                 ELSE [h EXCEPT !.bundle.patient_summary = out.result,
                                !.stages = record_stage(@, "PATIENT_SUMMARY", "SUCCESS", None)]
        ELSE [g EXCEPT !.stages = record_stage(@, "PATIENT_SUMMARY", "SKIPPED", None)]

\* Lines 226-230 on a frame.
StatusFrame(f) ==
    [f EXCEPT !.pipeline_status = ComputePipelineStatus(f.stages), !.pc = "learning"]

\* Lines 233-278 on a frame.
LearningFrame(f, repo) ==
    LET g == [f EXCEPT !.pc = "return"]
    IN  IF /\ LearningGuard(f.request, repo, f.bundle)
           /\ has_significant(f.bundle.qa_result.issues)
           /\ HasSave(repo)
        THEN [g EXCEPT !.calls = Append(@, Call("learning_repo", LearningEvent(f.request, f.bundle),
                                                f.outcomes.learning_repo))]
        ELSE g

\* Lines 280-286 on a frame.
ReturnFrame(f) ==
    [f EXCEPT !.response = [pipeline_status |-> f.pipeline_status, bundle |-> f.bundle,
                            stages |-> f.stages],
              !.pc = "done"]

\* The variables of the single invocation, unused by the concurrent runs.
oneRunVars ==
    <<pc, request, stages, bundle, report_failed, current_report_text, pipeline_status,
      callLog, response>>

ConcurrentInit ==
    /\ cv_agent = TRUE
    /\ learning_repo = "WithSave"
    /\ pc = "idle"
    /\ request = NoRequest
    /\ stages = <<>>
    /\ bundle = StudyBundle
    /\ report_failed = FALSE
    /\ current_report_text = None
    /\ pipeline_status = None
    /\ callLog = <<>>
    /\ response = NoneObj
    /\ runs = [r \in Runs |-> IdleFrame]

\* A step of run r replaces the frame of r.
StepTo(r, frame) ==
    /\ runs' = [runs EXCEPT ![r] = frame]
    /\ UNCHANGED <<cv_agent, learning_repo, oneRunVars>>

CBegin(r) ==
    /\ runs[r].pc = "idle"
    /\ \E req \in ConcurrentRequests, scenario \in ExecutorScenarios :
        StepTo(r, BeginFrame(runs[r], req, scenario))

CStageCV(r) ==
    /\ runs[r].pc = "cv"
    /\ StepTo(r, CVFrame(runs[r], cv_agent))

\* Mutant of CStageDraft: the bundle is kept on the coordinator instance, so
\* the step of one run writes the bundle every run sees.
CStageDraft_BundleOnInstance(r) ==
    /\ runs[r].pc = "draft"
    /\ LET frame == DraftFrame(runs[r])
       IN  runs' = [q \in Runs |-> IF q = r THEN frame ELSE [runs[q] EXCEPT !.bundle = frame.bundle]]
    /\ UNCHANGED <<cv_agent, learning_repo, oneRunVars>>

CStageDraft(r) ==
    /\ runs[r].pc = "draft"
    /\ StepTo(r, DraftFrame(runs[r]))

CShortCircuit(r) ==
    /\ runs[r].pc = "qa"
    /\ ShortCircuitCondition(runs[r].report_failed, runs[r].current_report_text)
    /\ StepTo(r, ShortCircuitFrame(runs[r]))

CStageQA(r) ==
    /\ runs[r].pc = "qa"
    /\ ~ShortCircuitCondition(runs[r].report_failed, runs[r].current_report_text)
    /\ StepTo(r, QAFrame(runs[r]))

CStageFollowup(r) ==
    /\ runs[r].pc = "followup"
    /\ StepTo(r, FollowupFrame(runs[r]))

CStageSummary(r) ==
    /\ runs[r].pc = "summary"
    /\ StepTo(r, SummaryFrame(runs[r]))

CDeterminePipelineStatus(r) ==
    /\ runs[r].pc = "status"
    /\ StepTo(r, StatusFrame(runs[r]))

CLogLearningEvent(r) ==
    /\ runs[r].pc = "learning"
    /\ StepTo(r, LearningFrame(runs[r], learning_repo))

CReturn(r) ==
    /\ runs[r].pc = "return"
    /\ StepTo(r, ReturnFrame(runs[r]))

\* Any interleaving of the steps of the two runs.
ConcurrentNext ==
    \E r \in Runs :
        \/ CBegin(r)
        \/ CStageCV(r)
        \/ CStageDraft(r)
        \/ CShortCircuit(r)
        \/ CStageQA(r)
        \/ CStageFollowup(r)
        \/ CStageSummary(r)
        \/ CDeterminePipelineStatus(r)
        \/ CLogLearningEvent(r)
        \/ CReturn(r)

ConcurrentSpec == ConcurrentInit /\ [][ConcurrentNext]_vars

\* ===================================================================== claims
\* The run has returned its response.
HasReturned == pc = "done"

\* Statuses the ledger holds for a stage.
StatusesOf(ledger, stage) == {ledger[k].status : k \in {j \in 1..Len(ledger) : ledger[j].stage = stage}}

\* Number of calls made on a collaborator so far.
Calls(agent) == Len(SelectSeq(callLog, LAMBDA c : c.agent = agent))

\* Some call on the collaborator raised.
HasRaised(agent) == \E k \in 1..Len(callLog) : callLog[k].agent = agent /\ callLog[k].raised

\* Arguments of the calls made on a collaborator.
ArgsOf(agent) == {callLog[k].arg : k \in {j \in 1..Len(callLog) : callLog[j].agent = agent}}

\* C1: the returned ledger has exactly five entries, one per stage, in the
\* order CV_ANALYSIS, REPORT_DRAFT, QA_REVIEW, FOLLOWUP_EXTRACTION,
\* PATIENT_SUMMARY, whatever the options, inputs and executor outcomes.
C1_LedgerHasFiveOrderedEntries ==
    HasReturned =>
        /\ Len(response.stages) = 5
        /\ \A k \in 1..5 : response.stages[k].stage = StudyPipelineStage[k]

\* C1 witness: a returned run in which a stage was skipped, one failed and
\* one succeeded.
C1_Witness ==
    /\ HasReturned
    /\ \E i, j, k \in 1..Len(response.stages) :
        /\ response.stages[i].status = "SKIPPED"
        /\ response.stages[j].status = "FAILED"
        /\ response.stages[k].status = "SUCCESS"

\* C2: if the returned ledger has REPORT_DRAFT as FAILED, then QA_REVIEW,
\* FOLLOWUP_EXTRACTION and PATIENT_SUMMARY are SKIPPED and the pipeline
\* status is FAILED.
C2_DraftFailedSkipsDownstream ==
    (HasReturned /\ "FAILED" \in StatusesOf(response.stages, "REPORT_DRAFT")) =>
        /\ StatusesOf(response.stages, "QA_REVIEW") = {"SKIPPED"}
        /\ StatusesOf(response.stages, "FOLLOWUP_EXTRACTION") = {"SKIPPED"}
        /\ StatusesOf(response.stages, "PATIENT_SUMMARY") = {"SKIPPED"}
        /\ response.pipeline_status = "FAILED"

\* C2 witness: a returned run whose REPORT_DRAFT entry is FAILED although
\* every downstream stage was enabled.
C2_Witness ==
    /\ HasReturned
    /\ StatusesOf(response.stages, "REPORT_DRAFT") = {"FAILED"}
    /\ request.pipeline_options.run_qa_review
    /\ request.pipeline_options.run_followup_extraction
    /\ request.pipeline_options.run_patient_summary

\* C3: once the report-draft executor has raised, the QA, follow-up and
\* patient-summary executors are never invoked in that run.
C3_NoExecutorAfterDraftRaised ==
    HasRaised("report_drafter") =>
        /\ Calls("qa_agent") = 0
        /\ Calls("followup_agent") = 0
        /\ Calls("patient_explainer") = 0

\* C3 witness: a run that returned after its draft executor raised, with the
\* three downstream stages enabled.
C3_Witness ==
    /\ HasReturned
    /\ HasRaised("report_drafter")
    /\ Calls("report_drafter") = 1
    /\ request.pipeline_options.run_qa_review
    /\ request.pipeline_options.run_followup_extraction
    /\ request.pipeline_options.run_patient_summary

\* C4: if the returned ledger has REPORT_DRAFT as SUCCESS and no entry is
\* FAILED, the pipeline status is SUCCESS.
C4_DraftSuccessNoFailureIsSuccess ==
    (/\ HasReturned
     /\ StatusesOf(response.stages, "REPORT_DRAFT") = {"SUCCESS"}
     /\ \A k \in 1..Len(response.stages) : response.stages[k].status # "FAILED")
    => response.pipeline_status = "SUCCESS"

\* C5: if the returned ledger has REPORT_DRAFT as SUCCESS and one of the
\* other four stages as FAILED, the pipeline status is PARTIAL_SUCCESS.
C5_DraftSuccessOtherFailureIsPartial ==
    (/\ HasReturned
     /\ StatusesOf(response.stages, "REPORT_DRAFT") = {"SUCCESS"}
     /\ \E st \in {"CV_ANALYSIS", "QA_REVIEW", "FOLLOWUP_EXTRACTION", "PATIENT_SUMMARY"} :
            "FAILED" \in StatusesOf(response.stages, st))
    => response.pipeline_status = "PARTIAL_SUCCESS"

\* The QA stage succeeded and its result carries a non-empty normalized text.
QANormalized(r) ==
    /\ StatusesOf(r.stages, "QA_REVIEW") = {"SUCCESS"}
    /\ r.bundle.qa_result # NoneObj
    /\ r.bundle.qa_result.normalized_report_text \notin {None, ""}

\* The raw report text of the draft in the bundle (None without a draft).
DraftRawText(r) ==
    IF r.bundle.report_draft = NoneObj THEN None ELSE r.bundle.report_draft.report_text

\* C6 as stated: final_report_text is the QA-normalized text when QA succeeded
\* with a non-empty normalization, and the draft's raw text in every other run.
C6_FinalTextAsStated ==
    HasReturned =>
        response.bundle.final_report_text =
            IF QANormalized(response)
            THEN response.bundle.qa_result.normalized_report_text
            ELSE DraftRawText(response)

\* C6 amended: final_report_text is the QA-normalized text when QA succeeded
\* with a non-empty normalization; otherwise it is the draft's raw text when
\* the draft returned a non-empty text, and null when the draft raised or
\* returned an empty text.
C6_FinalTextDerivation ==
    HasReturned =>
        response.bundle.final_report_text =
            IF QANormalized(response)
            THEN response.bundle.qa_result.normalized_report_text
            ELSE IF DraftRawText(response) \notin {None, ""}
                 THEN DraftRawText(response)
                 ELSE None

\* C6 witness: a returned run whose QA succeeded with an empty normalized
\* text, so that the final text is the draft's.
C6_Witness ==
    /\ HasReturned
    /\ StatusesOf(response.stages, "QA_REVIEW") = {"SUCCESS"}
    /\ response.bundle.qa_result.normalized_report_text = ""
    /\ response.bundle.final_report_text = "Draft Report"

\* The option-gated stages: stage, toggle of PipelineOptions, executor.
GatedStages ==
    {<<"CV_ANALYSIS", "run_cv_analysis", "cv_agent">>,
     <<"QA_REVIEW", "run_qa_review", "qa_agent">>,
     <<"FOLLOWUP_EXTRACTION", "run_followup_extraction", "followup_agent">>,
     <<"PATIENT_SUMMARY", "run_patient_summary", "patient_explainer">>}

\* C7: a gated stage whose toggle is false has its executor invoked zero
\* times and is SKIPPED in the returned ledger, whatever the other stages do.
C7_DisabledStageSkippedNotInvoked ==
    (pc # "idle") =>
        \A g \in GatedStages :
            ~request.pipeline_options[g[2]] =>
                /\ Calls(g[3]) = 0
                /\ HasReturned => StatusesOf(response.stages, g[1]) = {"SKIPPED"}

\* C7 witness: a returned run with CV and QA disabled, the draft succeeded,
\* and the follow-up stage failed.
C7_Witness ==
    /\ HasReturned
    /\ ~request.pipeline_options.run_cv_analysis
    /\ cv_agent
    /\ request.image_references.given /\ Len(request.image_references.refs) > 0
    /\ ~request.pipeline_options.run_qa_review
    /\ StatusesOf(response.stages, "REPORT_DRAFT") = {"SUCCESS"}
    /\ StatusesOf(response.stages, "FOLLOWUP_EXTRACTION") = {"FAILED"}

\* image_references is absent or empty.
NoImages(req) == ~req.image_references.given \/ req.image_references.refs = <<>>

\* C8: in a run without image references the CV executor is not invoked and
\* CV_ANALYSIS is SKIPPED in the returned ledger, even with run_cv_analysis
\* true and a CV executor configured.
C8_NoImagesSkipsCV ==
    (pc # "idle" /\ NoImages(request)) =>
        /\ Calls("cv_agent") = 0
        /\ HasReturned => StatusesOf(response.stages, "CV_ANALYSIS") = {"SKIPPED"}

\* C8 witness: a returned run with CV enabled, a CV executor configured and
\* an empty image_references list.
C8_Witness ==
    /\ HasReturned
    /\ request.pipeline_options.run_cv_analysis
    /\ cv_agent
    /\ request.image_references.given
    /\ request.image_references.refs = <<>>

\* C9: in a returned run whose QA executor raised (the draft succeeded with
\* a non-empty text and QA was enabled), QA_REVIEW is FAILED, the final text
\* is the draft's raw text, the follow-up and patient-summary executors, when
\* enabled, were invoked once with that text, and the status is
\* PARTIAL_SUCCESS.
C9_QAFailureFallsBackToDraft ==
    (HasReturned /\ HasRaised("qa_agent")) =>
        /\ StatusesOf(response.stages, "REPORT_DRAFT") = {"SUCCESS"}
        /\ DraftRawText(response) \notin {None, ""}
        /\ StatusesOf(response.stages, "QA_REVIEW") = {"FAILED"}
        /\ response.bundle.final_report_text = DraftRawText(response)
        /\ request.pipeline_options.run_followup_extraction =>
            /\ Calls("followup_agent") = 1
            /\ \A a \in ArgsOf("followup_agent") : a.report_text = DraftRawText(response)
        /\ request.pipeline_options.run_patient_summary =>
            /\ Calls("patient_explainer") = 1
            /\ \A a \in ArgsOf("patient_explainer") : a.report_text = DraftRawText(response)
        /\ response.pipeline_status = "PARTIAL_SUCCESS"

\* C9 witness: a returned run whose QA executor raised and whose follow-up
\* and patient-summary stages were enabled and succeeded.
C9_Witness ==
    /\ HasReturned
    /\ HasRaised("qa_agent")
    /\ StatusesOf(response.stages, "FOLLOWUP_EXTRACTION") = {"SUCCESS"}
    /\ StatusesOf(response.stages, "PATIENT_SUMMARY") = {"SUCCESS"}

\* The conditions of the learning-event emission: not a dry run, a sink
\* offering save, a radiologist id, a QA result with a MAJOR or CRITICAL issue.
EmissionConditions ==
    /\ request.dry_run = FALSE
    /\ learning_repo = "WithSave"
    /\ request.radiologist_id \notin {None, ""}
    /\ bundle.qa_result # NoneObj
    /\ \E k \in DOMAIN bundle.qa_result.issues :
          bundle.qa_result.issues[k].severity \in {"major", "critical"}

\* C10: save of the learning-event sink is never called more than once, and
\* a returned run has called it exactly once when the run is not a dry run,
\* a sink is configured, radiologist_id is supplied and the QA result has an
\* issue of severity MAJOR or CRITICAL, and zero times otherwise.
C10_SaveCalledOnceIffConditions ==
    /\ Calls("learning_repo") <= 1
    /\ HasReturned => Calls("learning_repo") = (IF EmissionConditions THEN 1 ELSE 0)

\* C10 witness: a returned run that called save once for a QA result whose
\* only significant issue is MAJOR and comes after a MINOR one, with a failed
\* patient summary.
C10_Witness ==
    /\ HasReturned
    /\ Calls("learning_repo") = 1
    /\ bundle.qa_result.issues = <<[severity |-> "minor"], [severity |-> "major"]>>
    /\ StatusesOf(response.stages, "PATIENT_SUMMARY") = {"FAILED"}

\* C11: the learning-event step, whether save returns or raises, leads to the
\* return with the pipeline status, the ledger and the bundle as they were
\* before it, and the response is made of exactly these; so the response of
\* the run where save raises is that of the run where save succeeds.
C11_SaveFailureDoesNotAlterResponse ==
    /\ [][(pc = "learning") =>
            /\ pc' = "return"
            /\ pipeline_status' = pipeline_status
            /\ stages' = stages
            /\ bundle' = bundle]_vars
    /\ [](HasReturned =>
            response = [pipeline_status |-> pipeline_status, bundle |-> bundle, stages |-> stages])

\* C11 witness: a run that returned SUCCESS after save raised.
C11_Witness ==
    /\ HasReturned
    /\ HasRaised("learning_repo")
    /\ response.pipeline_status = "SUCCESS"
    /\ Len(response.stages) = 5

\* The five stage executors.
StageExecutors == {"cv_agent", "report_drafter", "qa_agent", "followup_agent", "patient_explainer"}

\* Position of a step in the text of orchestrate_study.
StepRank(p) ==
    CASE p = "idle" -> 0 [] p = "cv" -> 1 [] p = "draft" -> 2 [] p = "qa" -> 3
      [] p = "followup" -> 4 [] p = "summary" -> 5 [] p = "status" -> 6
      [] p = "learning" -> 7 [] p = "return" -> 8 [] p = "done" -> 9
      [] OTHER -> 10

\* C12: whatever the stage executors do, the run terminates by returning a
\* response: a run that has not returned can always take a further step,
\* every step moves forward in the method (so there are at most nine), no
\* step ends outside the method's normal flow, and the response has a
\* pipeline status and a ledger of five entries.
C12_AlwaysReturnsResponse ==
    /\ [](~HasReturned => ENABLED Next)
    /\ [][StepRank(pc) < StepRank(pc') /\ StepRank(pc') <= 9]_vars
    /\ [](HasReturned =>
            /\ response.pipeline_status \in PipelineStatus
            /\ Len(response.stages) = 5)

\* C12 witness: a run that returned after three of its stage executors raised.
C12_Witness ==
    /\ HasReturned
    /\ Cardinality({a \in StageExecutors : HasRaised(a)}) >= 3
    /\ response.pipeline_status \in PipelineStatus

\* The report-draft executor returned a result instead of raising.
DraftReturned == Calls("report_drafter") = 1 /\ ~HasRaised("report_drafter")

\* C13: when the report-draft executor returns without raising but its result
\* has no usable report text, REPORT_DRAFT is FAILED in the returned ledger,
\* the three downstream stages are SKIPPED and the pipeline status is FAILED.
C13_UnusableDraftIsFailed ==
    (HasReturned /\ DraftReturned /\ ~TruthyText(DraftRawText(response))) =>
        /\ StatusesOf(response.stages, "REPORT_DRAFT") = {"FAILED"}
        /\ \A k \in 3..5 : response.stages[k].status = "SKIPPED"
        /\ response.pipeline_status = "FAILED"

\* The first image reference of an attempted CV stage is not a readable image
\* source: it has no file_path, or its file_path cannot be opened.
FirstRefNotReadable(req) ==
    LET ref == req.image_references.refs[1]
    IN  \/ "file_path" \notin DOMAIN ref
        \/ ref.file_path \notin ReadableFiles

\* C14: with CV analysis enabled, a CV executor configured and a non-empty
\* image_references whose first reference is not a readable image source,
\* CV_ANALYSIS is SKIPPED, not FAILED, and the CV executor is not invoked.
C14_UnreadableImageSkipsCV ==
    (HasReturned /\ CVEligible(request, cv_agent) /\ FirstRefNotReadable(request)) =>
        /\ StatusesOf(response.stages, "CV_ANALYSIS") = {"SKIPPED"}
        /\ Calls("cv_agent") = 0

\* Status of a stage after the draft, from its toggle and its executor's
\* outcome alone, in a run whose draft has the given outcome.
DownstreamStatus(toggle, agent) ==
    IF bundle.report_draft = NoneObj \/ ~TruthyText(bundle.report_draft.report_text)
    THEN "SKIPPED"
    ELSE IF ~request.pipeline_options[toggle] THEN "SKIPPED"
    ELSE IF HasRaised(agent) THEN "FAILED"
    ELSE "SUCCESS"

\* Statuses of the four stages after CV, as a function of the options and of
\* the outcomes of the four later executors; the CV stage does not occur in it.
StatusesAfterCV ==
    <<IF HasRaised("report_drafter") THEN "FAILED" ELSE "SUCCESS",
      DownstreamStatus("run_qa_review", "qa_agent"),
      DownstreamStatus("run_followup_extraction", "followup_agent"),
      DownstreamStatus("run_patient_summary", "patient_explainer")>>

\* C15: when the CV executor raises, CV_ANALYSIS is FAILED, the report-draft
\* executor is still invoked (with no CV summary, as after a skipped CV), and
\* the statuses of the four later stages are the function StatusesAfterCV of
\* the options and later outcomes, both in that run and in the run where CV
\* was skipped.
C15_CVFailureIsNonFatal ==
    HasReturned =>
        /\ HasRaised("cv_agent") =>
            /\ StatusesOf(response.stages, "CV_ANALYSIS") = {"FAILED"}
            /\ Calls("report_drafter") = 1
            /\ ArgsOf("report_drafter") = {[cv_summary |-> NoneObj]}
        /\ response.stages[1].status \in {"FAILED", "SKIPPED"} =>
            LET expected == StatusesAfterCV
            IN  \A k \in 2..5 : response.stages[k].status = expected[k - 1]

\* C15 witness: a run whose CV executor raised, whose draft and QA succeeded
\* and whose patient summary failed.
C15_Witness ==
    /\ HasReturned
    /\ HasRaised("cv_agent")
    /\ StatusesOf(response.stages, "REPORT_DRAFT") = {"SUCCESS"}
    /\ StatusesOf(response.stages, "QA_REVIEW") = {"SUCCESS"}
    /\ StatusesOf(response.stages, "PATIENT_SUMMARY") = {"FAILED"}

\* Number of ledger entries of a stage.
EntriesOf(ledger, stage) == Len(SelectSeq(ledger, LAMBDA e : e.stage = stage))

\* C16: a step invokes a stage executor only if that executor has not been
\* invoked before in the run, and records a ledger entry only for a stage
\* that has none, leaving the recorded entries as they are; at the return
\* each stage has exactly one entry.  So a FAILED stage is neither re-invoked
\* nor re-recorded.
C16_AtMostOneCallAndOneStatus ==
    /\ [][/\ \A j \in (Len(callLog) + 1)..Len(callLog') : \A h \in 1..(j - 1) :
                (callLog'[j].agent \in StageExecutors) => (callLog'[h].agent # callLog'[j].agent)
          /\ \A j \in (Len(stages) + 1)..Len(stages') : \A h \in 1..(j - 1) :
                stages'[h].stage # stages'[j].stage
          /\ Len(stages') >= Len(stages)
          /\ \A k \in 1..Len(stages) : stages'[k] = stages[k]]_vars
    /\ [](HasReturned => \A k \in 1..5 : EntriesOf(response.stages, StudyPipelineStage[k]) = 1)

\* C16 witness: a returned run in which follow-up and patient summary both
\* failed, each after a single call.
C16_Witness ==
    /\ HasReturned
    /\ StatusesOf(response.stages, "FOLLOWUP_EXTRACTION") = {"FAILED"}
    /\ StatusesOf(response.stages, "PATIENT_SUMMARY") = {"FAILED"}
    /\ Calls("followup_agent") = 1
    /\ Calls("patient_explainer") = 1

\* Index of the stage an executor belongs to.
StageIndexOf(agent) ==
    CASE agent = "cv_agent" -> 1 [] agent = "report_drafter" -> 2 [] agent = "qa_agent" -> 3
      [] agent = "followup_agent" -> 4 [] agent = "patient_explainer" -> 5 [] OTHER -> 6

\* C17: whenever a step invokes a stage executor, the ledger before the step
\* holds exactly the entries of all earlier stages, in order, and every
\* executor invoked before belongs to an earlier stage.
C17_ExecutorsInvokedInStageOrder ==
    [][\A j \in (Len(callLog) + 1)..Len(callLog') :
          LET i == StageIndexOf(callLog'[j].agent)
          IN  i <= 5 =>
                /\ Len(stages) = i - 1
                /\ \A k \in 1..(i - 1) : stages[k].stage = StudyPipelineStage[k]
                /\ \A h \in 1..(j - 1) : StageIndexOf(callLog'[h].agent) < i]_vars

\* C17 witness: a returned run in which all five executors were invoked.
C17_Witness ==
    /\ HasReturned
    /\ \A a \in StageExecutors : Calls(a) = 1
    /\ \A j \in 1..5 : StageIndexOf(callLog[j].agent) = j

\* One ledger is a prefix of another.
IsPrefix(s, t) == Len(s) <= Len(t) /\ \A k \in 1..Len(s) : t[k] = s[k]

\* C18: every step leaves the ledger a prefix of the ledger after it (so, by
\* transitivity, of the ledger at every later step), and the response's
\* ledger is that ledger.
C18_LedgerIsAppendOnly ==
    /\ [][IsPrefix(stages, stages')]_vars
    /\ [](HasReturned => response.stages = stages)

\* C18 witness: a returned ledger whose first entry is a successful CV stage
\* followed by four later entries.
C18_Witness ==
    /\ HasReturned
    /\ Len(response.stages) = 5
    /\ response.stages[1] = StageResult("CV_ANALYSIS", "SUCCESS", None)
    /\ response.stages[5].status = "SUCCESS"

\* C19: the QA executor is given the draft's raw report text; the follow-up
\* and patient-summary executors are given the final_report_text of the
\* bundle, which the follow-up and patient-summary steps leave unchanged up
\* to the response.
C19_ExecutorsGetWorkingText ==
    /\ [](/\ \A a \in ArgsOf("qa_agent") :
                a.report_text = DraftRawText([bundle |-> bundle])
          /\ \A a \in ArgsOf("followup_agent") \cup ArgsOf("patient_explainer") :
                a.report_text = bundle.final_report_text
          /\ HasReturned => response.bundle.final_report_text = bundle.final_report_text)
    /\ [][(pc \in {"followup", "summary", "status", "learning", "return"}) =>
            (bundle'.final_report_text = bundle.final_report_text)]_vars

\* C19 witness: a returned run in which QA normalized the draft and both
\* later executors were invoked.
C19_Witness ==
    /\ HasReturned
    /\ ArgsOf("qa_agent") = {[report_text |-> "Draft Report"]}
    /\ response.bundle.final_report_text = "Clean Report"
    /\ Calls("followup_agent") = 1
    /\ Calls("patient_explainer") = 1

\* C20: when REPORT_DRAFT is SUCCESS and patient summary is enabled, the
\* patient-summary executor is invoked once, whatever the follow-up status;
\* its request carries the follow-up output exactly when FOLLOWUP_EXTRACTION
\* is SUCCESS and no follow-up data otherwise.
C20_SummaryAttemptedAfterDraftSuccess ==
    (/\ HasReturned
     /\ StatusesOf(response.stages, "REPORT_DRAFT") = {"SUCCESS"}
     /\ request.pipeline_options.run_patient_summary) =>
        /\ Calls("patient_explainer") = 1
        /\ \A a \in ArgsOf("patient_explainer") :
            IF StatusesOf(response.stages, "FOLLOWUP_EXTRACTION") = {"SUCCESS"}
            THEN a.followup_data # NoneObj /\ a.followup_data = response.bundle.followup_data
            ELSE a.followup_data = NoneObj

\* The bundle field each stage produces, in the order of the stages.
ProducedField == <<"cv_analysis", "report_draft", "qa_result", "followup_data", "patient_summary">>

\* C21: in every returned response a bundle output field is non-null if and
\* only if the ledger status of its producing stage is SUCCESS.
C21_OutputPresentIffSuccess ==
    HasReturned =>
        \A k \in 1..5 :
            (response.bundle[ProducedField[k]] # NoneObj) <=> (response.stages[k].status = "SUCCESS")

\* C21 witness: a returned run in which CV and follow-up failed while draft,
\* QA and patient summary succeeded.
C21_Witness ==
    /\ HasReturned
    /\ Len(response.stages) = 5
    /\ <<response.stages[1].status, response.stages[2].status, response.stages[3].status,
         response.stages[4].status, response.stages[5].status>>
       = <<"FAILED", "SUCCESS", "SUCCESS", "FAILED", "SUCCESS">>
    /\ response.bundle.followup_data = NoneObj
    /\ response.bundle.patient_summary # NoneObj

\* C22: every SKIPPED entry of the returned ledger carries a non-empty reason.
C22_SkippedHasReason ==
    HasReturned =>
        \A k \in 1..Len(response.stages) :
            response.stages[k].status = "SKIPPED" => TruthyText(response.stages[k].error)

\* Messages of the exceptions an executor can raise.
RaisedMessages(outcomes) == {o.error : o \in {x \in outcomes : x.raised}}

\* The executor of each stage, in the order of the stages.
ExecutorOf == <<"cv_agent", "report_drafter", "qa_agent", "followup_agent", "patient_explainer">>

\* Messages of the exceptions the executor of each stage can raise.
ExecutorMessages ==
    <<RaisedMessages(CVOutcomes), RaisedMessages(DraftOutcomes), RaisedMessages(QAOutcomes),
      RaisedMessages(FollowUpOutcomes), RaisedMessages(PatientSummaryOutcomes)>>

\* C23: a FAILED entry has the message of the exception raised while the
\* stage executed: that of its executor, which raised, or for CV_ANALYSIS
\* that of open() on an unreadable first reference, the executor not being
\* called; a SUCCESS entry has no error.
C23_FailedCarriesExceptionMessage ==
    HasReturned =>
        \A k \in 1..Len(response.stages) :
            LET e == response.stages[k] IN
            /\ e.status = "FAILED" =>
                \/ HasRaised(ExecutorOf[k]) /\ e.error \in ExecutorMessages[k]
                \/ /\ k = 1
                   /\ Calls("cv_agent") = 0
                   /\ FirstRefNotReadable(request)
                   /\ e.error = "No such file or directory"
            /\ e.status = "SUCCESS" => e.error = None

\* C23 witness: a returned run whose draft succeeded and whose QA and patient
\* summary executors raised.
C23_Witness ==
    /\ HasReturned
    /\ Len(response.stages) = 5
    /\ response.stages[2] = StageResult("REPORT_DRAFT", "SUCCESS", None)
    /\ response.stages[3] = StageResult("QA_REVIEW", "FAILED", "QA Error")
    /\ response.stages[5] = StageResult("PATIENT_SUMMARY", "FAILED", "Explainer Error")

\* The learning events handed to the sink.
EmittedEvents == ArgsOf("learning_repo")

\* C24: the severity of an emitted learning event is CRITICAL if any QA issue
\* is CRITICAL, at any position of the list, and MAJOR otherwise.
C24_EventSeverityIsHighest ==
    HasReturned =>
        \A ev \in EmittedEvents :
            ev.severity = IF \E k \in 1..Len(ev.qa_issues) : ev.qa_issues[k].severity = "critical"
                          THEN "CRITICAL" ELSE "MAJOR"

\* C24 witness: an event emitted for an issue list whose CRITICAL issue comes
\* after a MAJOR one.
C24_Witness ==
    /\ HasReturned
    /\ \E ev \in EmittedEvents :
        /\ ev.qa_issues = <<[severity |-> "major"], [severity |-> "critical"]>>
        /\ ev.severity = "CRITICAL"

\* The content of an emitted event apart from its source tag: the draft's raw
\* text as before-text, the bundle's final text as after-text, all QA issues.
EventTextsAndIssues(ev) ==
    /\ ev.report_text_before = DraftRawText(response)
    /\ ev.report_text_after = response.bundle.final_report_text
    /\ ev.qa_issues = response.bundle.qa_result.issues

\* C25 as stated: an emitted event carries the source tag "orchestrator", the
\* draft's raw text, the final report text and the full list of QA issues.
C25_EventContentAsStated ==
    HasReturned =>
        \A ev \in EmittedEvents : ev.source = "orchestrator" /\ EventTextsAndIssues(ev)

\* C25 amended: an emitted event carries the source tag
\* "orchestrator_pipeline", the draft's raw text as before-text, the returned
\* bundle's final_report_text as after-text and the full list of QA issues.
C25_EventContent ==
    HasReturned =>
        \A ev \in EmittedEvents : ev.source = "orchestrator_pipeline" /\ EventTextsAndIssues(ev)

\* C25 witness: an event emitted after QA normalized the draft, whose issue
\* list holds a MINOR issue besides a MAJOR one.
C25_Witness ==
    /\ HasReturned
    /\ \E ev \in EmittedEvents :
        /\ ev.report_text_before = "Draft Report"
        /\ ev.report_text_after = "Clean Report"
        /\ ev.qa_issues = <<[severity |-> "minor"], [severity |-> "major"]>>

\* C28: no entry of a returned ledger has status NOT_RUN.
C28_NoStageNotRun ==
    HasReturned =>
        \A k \in 1..Len(response.stages) : response.stages[k].status \in {"SUCCESS", "SKIPPED", "FAILED"}

\* C28 witness: a returned run with CV enabled and images supplied on a
\* coordinator without CV executor.
C28_Witness ==
    /\ HasReturned
    /\ request.pipeline_options.run_cv_analysis
    /\ ~NoImages(request)
    /\ ~cv_agent
    /\ response.stages[1].status = "SKIPPED"

\* C29: in every returned response final_report_text is null if and only if
\* the pipeline status is FAILED, and it is a non-empty text whenever the
\* status is SUCCESS or PARTIAL_SUCCESS.
C29_FinalTextNullIffFailed ==
    HasReturned =>
        /\ (response.bundle.final_report_text = None) <=> (response.pipeline_status = "FAILED")
        /\ response.pipeline_status \in {"SUCCESS", "PARTIAL_SUCCESS"} =>
            TruthyText(response.bundle.final_report_text)

\* C29 witness: a PARTIAL_SUCCESS run whose QA returned an empty
\* normalization, so that the final text is the draft.
C29_Witness ==
    /\ HasReturned
    /\ response.pipeline_status = "PARTIAL_SUCCESS"
    /\ response.bundle.qa_result # NoneObj
    /\ response.bundle.qa_result.normalized_report_text = ""
    /\ response.bundle.final_report_text = "Draft Report"

\* C30: a step calls the learning-event sink only when the ledger holds all
\* five entries and the pipeline status is computed and not FAILED; a FAILED
\* run never called it; and when the emission conditions hold, a FAILED
\* follow-up or patient-summary stage does not keep the call from being made.
C30_EmissionAfterStagesAndStatus ==
    /\ [][(Len(callLog') > Len(callLog) /\ callLog'[Len(callLog')].agent = "learning_repo") =>
            (Len(stages) = 5 /\ pipeline_status \in {"SUCCESS", "PARTIAL_SUCCESS"})]_vars
    /\ [](HasReturned =>
            /\ (response.pipeline_status = "FAILED") => (Calls("learning_repo") = 0)
            /\ (/\ EmissionConditions
                /\ \E k \in 4..5 : response.stages[k].status = "FAILED") =>
                    (Calls("learning_repo") = 1))

\* C30 witness: a PARTIAL_SUCCESS run whose follow-up and patient summary
\* failed and which called the sink.
C30_Witness ==
    /\ HasReturned
    /\ response.pipeline_status = "PARTIAL_SUCCESS"
    /\ response.stages[4].status = "FAILED"
    /\ response.stages[5].status = "FAILED"
    /\ Calls("learning_repo") = 1

\* The step an invocation takes from a frame when it runs alone.
StepAlone(f, agent, repo) ==
    CASE f.pc = "cv" -> CVFrame(f, agent)
      [] f.pc = "draft" -> DraftFrame(f)
      [] f.pc = "qa" -> IF ShortCircuitCondition(f.report_failed, f.current_report_text)
                        THEN ShortCircuitFrame(f) ELSE QAFrame(f)
      [] f.pc = "followup" -> FollowupFrame(f)
      [] f.pc = "summary" -> SummaryFrame(f)
      [] f.pc = "status" -> StatusFrame(f)
      [] f.pc = "learning" -> LearningFrame(f, repo)
      [] f.pc = "return" -> ReturnFrame(f)

\* The response of an invocation that runs alone on the coordinator.
RECURSIVE RunAlone(_, _, _)
RunAlone(f, agent, repo) ==
    IF f.pc = "done" THEN f.response ELSE RunAlone(StepAlone(f, agent, repo), agent, repo)

\* The run has returned its response.
RunReturned(r) == runs[r].pc = "done"

\* C26: under every interleaving of two runs on one coordinator, a step of
\* one run leaves the other run's ledger, bundle, pipeline status and
\* response as they are; each returned ledger has five entries, one per
\* stage in order; each bundle output is an output of that run's own
\* executor call; and each response is the one the run returns when it
\* runs alone.
C26_RunsDoNotInterfere ==
    /\ [][\A r \in Runs :
            (runs'[r].pc # runs[r].pc) =>
                \A q \in Runs \ {r} :
                    /\ runs'[q].stages = runs[q].stages
                    /\ runs'[q].bundle = runs[q].bundle
                    /\ runs'[q].pipeline_status = runs[q].pipeline_status
                    /\ runs'[q].response = runs[q].response]_vars
    /\ [](\A r \in Runs :
            RunReturned(r) =>
                LET resp == runs[r].response IN
                /\ Len(resp.stages) = 5
                /\ \A k \in 1..5 :
                    /\ resp.stages[k].stage = StudyPipelineStage[k]
                    /\ resp.bundle[ProducedField[k]] # NoneObj =>
                        /\ ~runs[r].outcomes[ExecutorOf[k]].raised
                        /\ resp.bundle[ProducedField[k]] = runs[r].outcomes[ExecutorOf[k]].result
                /\ resp = RunAlone(BeginFrame(IdleFrame, runs[r].request, runs[r].outcomes),
                                   cv_agent, learning_repo))

\* C26 witness: both runs have returned, one FAILED after its draft raised,
\* the other with five SUCCESS entries and its own draft in the bundle.
C26_Witness ==
    /\ RunReturned(1) /\ RunReturned(2)
    /\ runs[1].response.pipeline_status = "FAILED"
    /\ runs[1].response.stages[2].status = "FAILED"
    /\ runs[1].response.bundle.report_draft = NoneObj
    /\ runs[2].response.pipeline_status = "SUCCESS"
    /\ \A k \in 1..5 : runs[2].response.stages[k].status = "SUCCESS"
    /\ runs[2].response.bundle.report_draft = [report_text |-> "Draft Report"]

\* Two runs have returned, with requests that differ in dry_run only and the
\* same executor outcomes.
DifferOnlyInDryRun(r, q) ==
    /\ RunReturned(r) /\ RunReturned(q)
    /\ runs[r].request.dry_run # runs[q].request.dry_run
    /\ [runs[r].request EXCEPT !.dry_run = FALSE] = [runs[q].request EXCEPT !.dry_run = FALSE]
    /\ runs[r].outcomes = runs[q].outcomes

\* The calls a run made on the stage executors, in order.
StageCalls(r) == SelectSeq(runs[r].calls, LAMBDA c : c.agent \in StageExecutors)

\* The calls a run made on the learning-event sink.
SinkCalls(r) == SelectSeq(runs[r].calls, LAMBDA c : c.agent = "learning_repo")

\* C27: two runs with the same inputs and executor outcomes that differ only
\* in dry_run return the same ledger, the same bundle and the same pipeline
\* status and call the stage executors alike; the dry run does not call the
\* learning-event sink.
C27_DryRunOnlyAffectsSink ==
    \A r, q \in Runs :
        DifferOnlyInDryRun(r, q) =>
            /\ runs[r].response.stages = runs[q].response.stages
            /\ runs[r].response.bundle = runs[q].response.bundle
            /\ runs[r].response.pipeline_status = runs[q].response.pipeline_status
            /\ StageCalls(r) = StageCalls(q)
            /\ runs[r].request.dry_run => SinkCalls(r) = <<>>

\* C27 witness: two returned runs that differ only in dry_run, of which the
\* one that is not a dry run called the sink.
C27_Witness ==
    /\ DifferOnlyInDryRun(1, 2)
    /\ runs[1].request.dry_run
    /\ SinkCalls(1) = <<>>
    /\ Len(SinkCalls(2)) = 1
    /\ runs[2].response.pipeline_status = "PARTIAL_SUCCESS"

====
